---- MODULE Spec2Model ----
(***************************************************************************)
(* Model of pgxnclient/commands/install.py: the download, install,         *)
(* uninstall, check, load and unload commands of the PGXN client.          *)
(*                                                                         *)
(* One behaviour is one command object from construction to the end of     *)
(* its run() (load and unload may be followed by a fresh run of the same   *)
(* command against the same system).  Strings the code takes apart         *)
(* (file names, paths) are sequences of one-character strings.             *)
(***************************************************************************)
EXTENDS Integers, Sequences, FiniteSets, TLC

VARIABLES
    cmd,          \* the command being run (Command.name)
    pc,           \* position inside run()
    result,       \* "running", "ok", or the kind of the exception raised
    trace,        \* external operations performed so far in this run, in order
    specKind,     \* "dir" | "file" | "remote"  (spec.is_dir / spec.is_file)
    meta,         \* distribution metadata returned by get_meta (data)
    content,      \* bytes the transport writes to the downloaded file
    hasConfigure, \* os.path.exists(pdir/configure)
    regression,   \* extensions ext with pdir/regression.<ext> present
    pdirIsCwd,    \* pdir (spec.dirname) is the current directory
    tmpExists,    \* the temporary working directory exists on disk
    inTempScope,  \* call_with_temp_dir is on the stack (its cleanup is pending)
    fnExists,     \* the downloaded file fn exists on disk
    copied,       \* extensions ext with ./regression.<ext> present
    provides,     \* dist['provides'].items(): sequence of [name, file]
    sharefiles,   \* paths that exist under the server's sharedir
    versionData,  \* numbers in the output of SELECT version()
    idx,          \* position of the for loop of Load.run / Unload.run
    loaded,       \* self._loaded
    runNo,        \* number of the current run of load/unload
    prevFiles     \* SQL files executed by the previous run

vars == <<cmd, pc, result, trace, specKind, meta, content, hasConfigure,
          regression, pdirIsCwd, tmpExists, inTempScope, fnExists, copied, provides,
          sharefiles, versionData, idx, loaded, runNo, prevFiles>>

buildEnv == <<specKind, meta, content, hasConfigure, regression, pdirIsCwd>>
loadEnv  == <<provides, sharefiles, versionData>>
loadVars == <<idx, loaded, runNo, prevFiles>>

-----------------------------------------------------------------------------
(* Bounds of the model *)

MaxProvides == 2      \* entries of provides
MaxRuns == 2          \* runs of load/unload in one behaviour

-----------------------------------------------------------------------------
(* Download.verify_checksum: reading and hashing *)

ChunkSize == 8192

Min(a, b) == IF a < b THEN a ELSE b

\* the loop `data = f.read(8192); if not data: break; sha.update(data)`:
\* what sha has been fed once the loop ends
RECURSIVE ReadChunks(_, _)
ReadChunks(bytes, pos) ==
    IF pos > Len(bytes) THEN <<>>
    ELSE SubSeq(bytes, pos, Min(pos + ChunkSize - 1, Len(bytes)))
            \o ReadChunks(bytes, pos + ChunkSize)

\* file contents the transport may deliver: b"", b"a", b"abc"
Contents == { <<>>, <<97>>, <<97, 98, 99>> }

\* sha1(...).hexdigest() on the contents above
Sha1Hex(bytes) ==
    CASE bytes = <<>>           -> "da39a3ee5e6b4b0d3255bfef95601890afd80709"
      [] bytes = <<97>>         -> "86f7e437faa5a7fce15d1ddcb9eaeaea377667b8"
      [] bytes = <<97, 98, 99>> -> "a9993e364706816aba3e25717850c26c9cd0d89d"

Digests == { Sha1Hex(b) : b \in Contents }

\* the digest verify_checksum compares with chk
FileDigest(bytes) == Sha1Hex(ReadChunks(bytes, 1))

\* get_meta(spec): with or without the sha1 key
Metas == { [version |-> "1.0.0"] }
            \cup { [version |-> "1.0.0", sha1 |-> d] : d \in Digests }

-----------------------------------------------------------------------------
(* External operations recorded in the trace *)

Ev(op, rc) == [op |-> op, arg |-> <<>>, rc |-> rc]
EvA(op, arg, rc) == [op |-> op, arg |-> arg, rc |-> rc]

ExitCodes == {0, 1}

Ops(t) == [i \in 1..Len(t) |-> t[i].op]
HasOp(t, op) == \E i \in 1..Len(t) : t[i].op = op
IndexOf(t, op) == CHOOSE i \in 1..Len(t) : t[i].op = op

-----------------------------------------------------------------------------
(* Call stack: raising and returning *)

\* call_with_temp_dir(f): dir = mkdtemp(); try: f(dir) finally: rmtree(dir)
EnterTempDir ==
    /\ tmpExists' = TRUE
    /\ inTempScope' = TRUE

\* the finally clause of call_with_temp_dir, run when the stack unwinds;
\* fnAfter is whether the downloaded file is on disk as unwinding starts
LeaveTempDir(fnAfter) ==
    /\ tmpExists' = IF inTempScope THEN FALSE ELSE tmpExists
    /\ fnExists' = IF inTempScope THEN FALSE ELSE fnAfter
    /\ inTempScope' = FALSE

\* an exception of kind err leaves run()
Raise(err, fnAfter) ==
    /\ result' = err
    /\ pc' = "done"
    /\ LeaveTempDir(fnAfter)

\* run() returns normally
Return ==
    /\ result' = "ok"
    /\ pc' = "done"
    /\ LeaveTempDir(fnExists)

\* control moves on inside run()
Goto(label) ==
    /\ pc' = label
    /\ UNCHANGED <<result, tmpExists, inTempScope>>

-----------------------------------------------------------------------------
(* Download *)

BuildCommands == {"install", "uninstall", "check"}

\* Download.run with the sha1 looked up only after the file was fetched
Download_run_fetches_first ==
    /\ \/ cmd = "download" /\ pc = "start"
       \/ pc = "download"
    /\ \E rc \in ExitCodes :
         /\ trace' = Append(trace, Ev("download", rc))
         /\ IF rc # 0
              THEN Raise("NetworkError", fnExists)
              ELSE IF "sha1" \notin DOMAIN meta
                     THEN Raise("MissingChecksum", TRUE)
                     ELSE /\ fnExists' = TRUE
                          /\ Goto("verify")
    /\ UNCHANGED <<cmd, buildEnv, copied, loadEnv, loadVars>>

\* Download.run up to the call of verify_checksum: the sha1 of the metadata
\* is read before anything is fetched; api.download + network.download then
\* write the file fn (the transport may fail)
Download_run ==
    /\ \/ cmd = "download" /\ pc = "start"
       \/ pc = "download"
    /\ IF "sha1" \notin DOMAIN meta
         THEN /\ Raise("MissingChecksum", fnExists)
              /\ UNCHANGED trace
         ELSE \E rc \in ExitCodes :
                /\ trace' = Append(trace, Ev("download", rc))
                /\ IF rc # 0
                     THEN Raise("NetworkError", fnExists)
                     ELSE /\ fnExists' = TRUE
                          /\ Goto("verify")
    /\ UNCHANGED <<cmd, buildEnv, copied, loadEnv, loadVars>>

\* verify_checksum with os.unlink(fn) left out
verify_checksum_keeps_file ==
    /\ pc = "verify"
    /\ LET sha == FileDigest(content)
           chk == meta.sha1
       IN  IF sha # chk
             THEN /\ trace' = Append(trace, Ev("verify", 1))
                  /\ Raise("BadChecksum", fnExists)
             ELSE /\ trace' = Append(trace, Ev("verify", 0))
                  /\ IF cmd = "download"
                       THEN Return
                       ELSE Goto("unpack") /\ UNCHANGED fnExists
    /\ UNCHANGED <<cmd, buildEnv, copied, loadEnv, loadVars>>

\* Download.verify_checksum(fn, chk), and the return of Download.run after it
verify_checksum ==
    /\ pc = "verify"
    /\ LET sha == FileDigest(content)
           chk == meta.sha1
       IN  IF sha # chk
             THEN /\ trace' = Append(trace, Ev("verify", 1))
                  /\ Raise("BadChecksum", FALSE)       \* os.unlink(fn)
             ELSE /\ trace' = Append(trace, Ev("verify", 0))
                  /\ IF cmd = "download"
                       THEN Return
                       ELSE Goto("unpack") /\ UNCHANGED fnExists
    /\ UNCHANGED <<cmd, buildEnv, copied, loadEnv, loadVars>>

-----------------------------------------------------------------------------
(* install / uninstall / check *)

\* run() entered without call_with_temp_dir: the directory is made and
\* never scheduled for removal
InstallUninstall_run_unscoped ==
    /\ cmd \in BuildCommands
    /\ pc = "start"
    /\ tmpExists' = TRUE
    /\ pc' = "acquire"
    /\ UNCHANGED <<cmd, result, trace, buildEnv, inTempScope, fnExists,
                   copied, loadEnv, loadVars>>

\* InstallUninstall.run: return self.call_with_temp_dir(self._run)
InstallUninstall_run ==
    /\ cmd \in BuildCommands
    /\ pc = "start"
    /\ EnterTempDir
    /\ pc' = "acquire"
    /\ UNCHANGED <<cmd, result, trace, buildEnv, fnExists, copied, loadEnv,
                   loadVars>>

\* _run with the download branch unpacking before Download.run is called
InstallUninstall_run_dispatch_early_unpack ==
    /\ pc = "acquire"
    /\ IF specKind = "dir"
         THEN Goto("configure") /\ UNCHANGED trace
         ELSE IF specKind = "file"
           THEN Goto("unpack") /\ UNCHANGED trace
           ELSE /\ trace' = Append(trace, Ev("unpack", 0))
                /\ Goto("download")
    /\ UNCHANGED <<cmd, buildEnv, fnExists, copied, loadEnv, loadVars>>

\* InstallUninstall._run: which branch supplies the source directory
InstallUninstall_run_dispatch ==
    /\ pc = "acquire"
    /\ IF specKind = "dir"
         THEN Goto("configure")
         ELSE IF specKind = "file"
           THEN Goto("unpack")
           ELSE Goto("download")
    /\ UNCHANGED <<cmd, trace, buildEnv, fnExists, copied, loadEnv, loadVars>>

\* pdir = self.unpack(..., dir), for an archive or for the downloaded file
unpack ==
    /\ pc = "unpack"
    /\ \E rc \in ExitCodes :
         /\ trace' = Append(trace, Ev("unpack", rc))
         /\ IF rc # 0
              THEN Raise("UnpackFailed", fnExists)
              ELSE Goto("configure") /\ UNCHANGED fnExists
    /\ UNCHANGED <<cmd, buildEnv, copied, loadEnv, loadVars>>

\* maybe_run_configure with the return code of configure ignored
maybe_run_configure_ignores_rc ==
    /\ pc = "configure"
    /\ IF ~hasConfigure
         THEN UNCHANGED trace
         ELSE \E rc \in ExitCodes : trace' = Append(trace, Ev("configure", rc))
    /\ Goto("inun")
    /\ UNCHANGED <<cmd, buildEnv, fnExists, copied, loadEnv, loadVars>>

\* InstallUninstall.maybe_run_configure(pdir)
maybe_run_configure ==
    /\ pc = "configure"
    /\ IF ~hasConfigure
         THEN /\ Goto("inun")
              /\ UNCHANGED <<trace, fnExists>>
         ELSE \E rc \in ExitCodes :
                /\ trace' = Append(trace, Ev("configure", rc))
                /\ IF rc # 0
                     THEN Raise("ConfigureFailed", fnExists)
                     ELSE Goto("inun") /\ UNCHANGED fnExists
    /\ UNCHANGED <<cmd, buildEnv, copied, loadEnv, loadVars>>

\* self.run_make(target, dir=pdir): the events of a list of make calls made
\* one after the other, each made only if the one before exited with 0
RECURSIVE run_make(_, _)
run_make(targets, rcs) ==
    IF targets = <<>> THEN <<>>
    ELSE <<Ev(Head(targets), Head(rcs))>>
            \o (IF Head(rcs) # 0 THEN <<>>
                ELSE run_make(Tail(targets), Tail(rcs)))

\* the make calls of a list all exited with 0
MakeOk(events, targets) ==
    /\ Len(events) = Len(targets)
    /\ \A i \in 1..Len(events) : events[i].rc = 0

\* an _inun that makes the calls `targets` and nothing else
Inun(targets) ==
    \E rcs \in [1..Len(targets) -> ExitCodes] :
        LET events == run_make(targets, rcs)
        IN  /\ trace' = trace \o events
            /\ IF MakeOk(events, targets)
                 THEN Return
                 ELSE Raise("MakeFailed", fnExists)

\* Install._inun with the two targets in the wrong order
Install_inun_install_first ==
    /\ cmd = "install"
    /\ pc = "inun"
    /\ Inun(<<"make_install", "make_all">>)
    /\ UNCHANGED <<cmd, buildEnv, copied, loadEnv, loadVars>>

\* Install._inun: run_make('all'), then run_make('install')
Install_inun ==
    /\ cmd = "install"
    /\ pc = "inun"
    /\ Inun(<<"make_all", "make_install">>)
    /\ UNCHANGED <<cmd, buildEnv, copied, loadEnv, loadVars>>

\* Uninstall._inun building before it removes, as Install._inun does
Uninstall_inun_builds_first ==
    /\ cmd = "uninstall"
    /\ pc = "inun"
    /\ Inun(<<"make_all", "make_uninstall">>)
    /\ UNCHANGED <<cmd, buildEnv, copied, loadEnv, loadVars>>

\* Uninstall._inun: run_make('uninstall')
Uninstall_inun ==
    /\ cmd = "uninstall"
    /\ pc = "inun"
    /\ Inun(<<"make_uninstall">>)
    /\ UNCHANGED <<cmd, buildEnv, copied, loadEnv, loadVars>>

\* shutil.copy(fn, './regression.' + ext) raises shutil.Error when fn and
\* the destination are the same file, which is the case when pdir is the
\* current directory
CopySameFile == pdirIsCwd /\ regression # {}

\* Check._inun: run_make(['installcheck', ...]); when it raises, the
\* regression.out / regression.diffs that exist are copied to ./ in this
\* order and the exception is raised again; a shutil.Error of the first
\* copy leaves the except clause in place of the exception of make
Check_inun ==
    /\ cmd = "check"
    /\ pc = "inun"
    /\ \E rc \in ExitCodes :
         /\ trace' = trace \o run_make(<<"make_installcheck">>, <<rc>>)
         /\ IF rc = 0
              THEN /\ UNCHANGED copied
                   /\ Return
              ELSE IF CopySameFile
                     THEN /\ UNCHANGED copied
                          /\ Raise("shutil.Error", fnExists)
                     ELSE /\ copied' = copied \cup regression
                          /\ Raise("MakeFailed", fnExists)
    /\ UNCHANGED <<cmd, buildEnv, loadEnv, loadVars>>

BuildNext ==
    \/ Download_run
    \/ verify_checksum
    \/ InstallUninstall_run
    \/ InstallUninstall_run_dispatch
    \/ unpack
    \/ maybe_run_configure
    \/ Install_inun
    \/ Uninstall_inun
    \/ Check_inun

-----------------------------------------------------------------------------
(* Strings *)

RECURSIVE LastIndexOf(_, _, _)
\* the last position <= i of s holding the character ch, 0 if none
LastIndexOf(s, ch, i) ==
    IF i = 0 THEN 0
    ELSE IF s[i] = ch THEN i ELSE LastIndexOf(s, ch, i - 1)

\* s.endswith(suffix)
EndsWith(s, suffix) ==
    /\ Len(s) >= Len(suffix)
    /\ SubSeq(s, Len(s) - Len(suffix) + 1, Len(s)) = suffix

\* os.path.basename(path)
Basename(path) == SubSeq(path, LastIndexOf(path, "/", Len(path)) + 1, Len(path))

\* s.rsplit('.', 1)[0]
RSplitDot(s) ==
    LET i == LastIndexOf(s, ".", Len(s))
    IN  IF i = 0 THEN s ELSE SubSeq(s, 1, i - 1)

DotSql == <<".", "s", "q", "l">>
DotControl == <<".", "c", "o", "n", "t", "r", "o", "l">>
Slash == <<"/">>
ContribDir == <<"c", "o", "n", "t", "r", "i", "b">>
ExtensionDir == <<"e", "x", "t", "e", "n", "s", "i", "o", "n">>
UninstallPrefix == <<"u", "n", "i", "n", "s", "t", "a", "l", "l", "_">>

\* call_pg_config('sharedir')
Sharedir == <<"/", "s", "h">>

\* data.get('file') when the entry has no file
NoFile == <<>>

-----------------------------------------------------------------------------
(* LoadUnload *)

\* parse_pg_version(data): data is given by the numbers the pattern
\* \S+\s+(\d+)\.(\d+)(?:\.(\d+))? finds in it, <<>> when it does not match
VersionParses(data) == Len(data) >= 2

parse_pg_version(data) ==
    <<data[1], data[2], IF Len(data) >= 3 THEN data[3] ELSE 0>>

\* tuple comparison with only the major number compared
TupleGE_major_only(v, w) == v[1] >= w[1]

\* v >= w on 3-tuples, as Python compares tuples
TupleGE(v, w) ==
    \/ v[1] > w[1]
    \/ v[1] = w[1] /\ v[2] > w[2]
    \/ v[1] = w[1] /\ v[2] = w[2] /\ v[3] >= w[3]

\* the threshold of load_ext: pgver >= (9,1,0)
ExtensionVersion == <<9, 1, 0>>

\* is_extension(name)
is_extension(name) ==
    (Sharedir \o Slash \o ExtensionDir \o Slash \o name \o DotControl)
        \in sharefiles

\* the list `tries` with contrib/ looked at first
SqlFileTries_contrib_first(name, sqlfile) ==
    LET base == Basename(sqlfile)
    IN  << ContribDir \o Slash \o base,
           name \o Slash \o base,
           RSplitDot(base) \o Slash \o base >>

\* the list `tries` of find_sql_file
SqlFileTries(name, sqlfile) ==
    LET base == Basename(sqlfile)
    IN  << name \o Slash \o base,
           RSplitDot(base) \o Slash \o base,
           ContribDir \o Slash \o base >>

RECURSIVE FirstExisting(_, _)
\* the for loop of find_sql_file: the first fn of tries that exists, with
\* sharedir in front; <<>> when the loop ends without one
FirstExisting(tries, tried) ==
    IF tries = <<>> THEN <<>>
    ELSE LET fn == Head(tries)
         IN  IF fn \in tried THEN FirstExisting(Tail(tries), tried)
             ELSE IF (Sharedir \o Slash \o fn) \in sharefiles
                    THEN Sharedir \o Slash \o fn
                    ELSE FirstExisting(Tail(tries), tried \cup {fn})

\* find_sql_file(name, sqlfile): the path found, <<>> when it raises
find_sql_file(name, sqlfile) == FirstExisting(SqlFileTries(name, sqlfile), {})

\* _is_loaded(fn)
is_loaded(ld, fn) == \E i \in 1..Len(ld) : ld[i] = fn

\* _register_loaded that starts a new list on every call
register_loaded_replaces(ld, fn) == <<fn>>

\* _register_loaded(fn)
register_loaded(ld, fn) == Append(ld, fn)

\* what one call of load_ext did: the external operations, self._loaded
\* afterwards, and "ok" or the exception that left it
Res(events, ld, outcome) == [events |-> events, loaded |-> ld, outcome |-> outcome]

\* answers of the outside world during one call of load_ext
Answers == [rcVer : ExitCodes, loose : BOOLEAN, guess : BOOLEAN,
            rcSql : ExitCodes]

\* self.confirm(prompt): rc 0 when accepted; a refusal raises UserAbort
Confirm(kind, about, accepted) == EvA(kind, about, IF accepted THEN 0 ELSE 1)

\* load_sql without the test of p.returncode
PsqlOutcome_ignores_rc(rc) == "ok"

\* load_sql(filename) / load_sql(data=cmd): psql returning non-zero raises
PsqlOutcome(rc) == IF rc # 0 THEN "PsqlFailed" ELSE "ok"

\* get_pg_version(): the call of psql and the parse of its output;
\* "ok" is followed by the comparison with ExtensionVersion
VersionQuery(name, ans) ==
    LET events == << EvA("load_ext", name, 0), EvA("psql_version", <<>>, ans.rcVer) >>
    IN  IF ans.rcVer # 0 THEN Res(events, <<>>, "PsqlFailed")
        ELSE IF ~VersionParses(versionData)
               THEN Res(events, <<>>, "VersionParseError")
               ELSE Res(events, <<>>, "ok")

\* the file-based activation with `confirm` never set for a guessed name
LoadFile_never_confirms(name, sqlfile, ld, ans, before) ==
    LET file == IF sqlfile = NoFile THEN name \o DotSql ELSE sqlfile
        fn == find_sql_file(name, file)
        looked == before \o << EvA("find_sql_file", file, IF fn = <<>> THEN 1 ELSE 0) >>
    IN  IF fn = <<>> THEN Res(looked, ld, "SqlFileNotFound")
        ELSE IF is_loaded(ld, fn)
               THEN Res(looked \o << EvA("already_loaded", fn, 0) >>, ld, "ok")
               ELSE LET done == looked \o << EvA("load_sql", fn, ans.rcSql) >>
                    IN  IF ans.rcSql # 0
                          THEN Res(done, ld, "PsqlFailed")
                          ELSE Res(done, register_loaded(ld, fn), "ok")

\* Load.load_ext recording the file as loaded as soon as it is found
LoadFile_registers_first(name, sqlfile, ld, ans, before) ==
    LET guessed == (sqlfile = NoFile)
        file == IF guessed THEN name \o DotSql ELSE sqlfile
        fn == find_sql_file(name, file)
        looked == before \o << EvA("find_sql_file", file, IF fn = <<>> THEN 1 ELSE 0) >>
        asked == IF guessed
                   THEN looked \o << Confirm("confirm_guess", fn, ans.guess) >>
                   ELSE looked
    IN  IF fn = <<>> THEN Res(looked, ld, "SqlFileNotFound")
        ELSE IF is_loaded(ld, fn)
               THEN Res(asked \o << EvA("already_loaded", fn, 0) >>, ld, "ok")
        ELSE IF guessed /\ ~ans.guess
               THEN Res(asked, register_loaded(ld, fn), "UserAbort")
               ELSE LET done == asked \o << EvA("load_sql", fn, ans.rcSql) >>
                    IN  Res(done, register_loaded(ld, fn),
                            IF ans.rcSql # 0 THEN "PsqlFailed" ELSE "ok")

\* Load.load_ext from `confirm = False` on: the file-based activation
LoadFile(name, sqlfile, ld, ans, before) ==
    LET guessed == (sqlfile = NoFile)
        file == IF guessed THEN name \o DotSql ELSE sqlfile
        fn == find_sql_file(name, file)
        looked == before \o << EvA("find_sql_file", file, IF fn = <<>> THEN 1 ELSE 0) >>
        asked == IF guessed
                   THEN looked \o << Confirm("confirm_guess", fn, ans.guess) >>
                   ELSE looked
    IN  IF fn = <<>> THEN Res(looked, ld, "SqlFileNotFound")
        ELSE IF guessed /\ ~ans.guess THEN Res(asked, ld, "UserAbort")
        ELSE IF is_loaded(ld, fn)
               THEN Res(asked \o << EvA("already_loaded", fn, 0) >>, ld, "ok")
               ELSE LET done == asked \o << EvA("load_sql", fn, ans.rcSql) >>
                    IN  IF ans.rcSql # 0
                          THEN Res(done, ld, "PsqlFailed")
                          ELSE Res(done, register_loaded(ld, fn), "ok")

\* Load.load_ext with the test of the file hint made after get_pg_version
Load_load_ext_version_first(name, sqlfile, ld, ans) ==
    LET ver == VersionQuery(name, ans)
    IN  IF ver.outcome # "ok" THEN Res(ver.events, ld, ver.outcome)
        ELSE IF sqlfile # NoFile /\ ~EndsWith(sqlfile, DotSql)
          THEN Res(ver.events \o << EvA("not_sql", name, 0) >>, ld, "ok")
        ELSE IF TupleGE(parse_pg_version(versionData), ExtensionVersion)
          THEN IF is_extension(name)
                 THEN Res(ver.events
                            \o << EvA("create_extension", name, ans.rcSql) >>,
                          ld, PsqlOutcome(ans.rcSql))
                 ELSE LET asked == ver.events
                            \o << Confirm("confirm_loose", name, ans.loose) >>
                      IN  IF ~ans.loose THEN Res(asked, ld, "UserAbort")
                          ELSE LoadFile(name, sqlfile, ld, ans, asked)
          ELSE LoadFile(name, sqlfile, ld, ans, ver.events)

\* Load.load_ext(name, sqlfile) on self._loaded = ld
Load_load_ext(name, sqlfile, ld, ans) ==
    IF sqlfile # NoFile /\ ~EndsWith(sqlfile, DotSql)
      THEN Res(<< EvA("load_ext", name, 0), EvA("not_sql", name, 0) >>, ld, "ok")
      ELSE
        LET ver == VersionQuery(name, ans)
        IN  IF ver.outcome # "ok" THEN Res(ver.events, ld, ver.outcome)
            ELSE IF TupleGE(parse_pg_version(versionData), ExtensionVersion)
              THEN IF is_extension(name)
                     THEN Res(ver.events
                                \o << EvA("create_extension", name, ans.rcSql) >>,
                              ld, PsqlOutcome(ans.rcSql))
                     ELSE LET asked == ver.events
                                \o << Confirm("confirm_loose", name, ans.loose) >>
                          IN  IF ~ans.loose THEN Res(asked, ld, "UserAbort")
                              ELSE LoadFile(name, sqlfile, ld, ans, asked)
              ELSE LoadFile(name, sqlfile, ld, ans, ver.events)

\* the file-based deactivation with the guard of Load.load_ext around load_sql
UnloadFile_guarded(name, sqlfile, ld, ans, before) ==
    LET file == UninstallPrefix \o (IF sqlfile = NoFile THEN name \o DotSql ELSE sqlfile)
        fn == find_sql_file(name, file)
        looked == before \o << EvA("find_sql_file", file, IF fn = <<>> THEN 1 ELSE 0) >>
        asked == looked \o << Confirm("confirm_unload", fn, ans.guess) >>
    IN  IF fn = <<>> THEN Res(looked, ld, "SqlFileNotFound")
        ELSE IF ~ans.guess THEN Res(asked, ld, "UserAbort")
        ELSE IF is_loaded(ld, fn)
               THEN Res(asked \o << EvA("already_loaded", fn, 0) >>, ld, "ok")
               ELSE IF ans.rcSql # 0
                      THEN Res(asked \o << EvA("load_sql", fn, ans.rcSql) >>, ld,
                               "PsqlFailed")
                      ELSE Res(asked \o << EvA("load_sql", fn, ans.rcSql) >>,
                               register_loaded(ld, fn), "ok")

\* Unload.load_ext from `if not sqlfile` on: the file-based deactivation
UnloadFile(name, sqlfile, ld, ans, before) ==
    LET file == UninstallPrefix \o (IF sqlfile = NoFile THEN name \o DotSql ELSE sqlfile)
        fn == find_sql_file(name, file)
        looked == before \o << EvA("find_sql_file", file, IF fn = <<>> THEN 1 ELSE 0) >>
        asked == looked \o << Confirm("confirm_unload", fn, ans.guess) >>
    IN  IF fn = <<>> THEN Res(looked, ld, "SqlFileNotFound")
        ELSE IF ~ans.guess THEN Res(asked, ld, "UserAbort")
        ELSE Res(asked \o << EvA("load_sql", fn, ans.rcSql) >>, ld,
                 PsqlOutcome(ans.rcSql))

\* Unload.load_ext(name, sqlfile)
Unload_load_ext(name, sqlfile, ld, ans) ==
    IF sqlfile # NoFile /\ ~EndsWith(sqlfile, DotSql)
      THEN Res(<< EvA("load_ext", name, 0), EvA("not_sql", name, 0) >>, ld, "ok")
      ELSE
        LET ver == VersionQuery(name, ans)
        IN  IF ver.outcome # "ok" THEN Res(ver.events, ld, ver.outcome)
            ELSE IF TupleGE(parse_pg_version(versionData), ExtensionVersion)
              THEN IF is_extension(name)
                     THEN Res(ver.events
                                \o << EvA("drop_extension", name, ans.rcSql) >>,
                              ld, PsqlOutcome(ans.rcSql))
                     ELSE LET asked == ver.events
                                \o << Confirm("confirm_loose", name, ans.loose) >>
                          IN  IF ~ans.loose THEN Res(asked, ld, "UserAbort")
                              ELSE UnloadFile(name, sqlfile, ld, ans, asked)
              ELSE UnloadFile(name, sqlfile, ld, ans, ver.events)

Reverse(seq) == [i \in 1..Len(seq) |-> seq[Len(seq) + 1 - i]]

\* a loop that catches the refusal of a prompt and goes on with the next entry
LoopStep_catches_refusal(items, r) ==
    /\ trace' = trace \o r.events
    /\ loaded' = r.loaded
    /\ idx' = idx + 1
    /\ IF r.outcome \notin {"ok", "UserAbort"}
         THEN Raise(r.outcome, fnExists)
         ELSE Goto("loop") /\ UNCHANGED fnExists

\* one turn of a for loop over items calling load_ext(name, data.get('file')),
\* or the end of the loop; an exception of load_ext leaves run()
LoopStep(items, r) ==
    /\ trace' = trace \o r.events
    /\ loaded' = r.loaded
    /\ idx' = idx + 1
    /\ IF r.outcome # "ok"
         THEN Raise(r.outcome, fnExists)
         ELSE Goto("loop") /\ UNCHANGED fnExists

LoopEnd ==
    /\ Return
    /\ UNCHANGED <<trace, loaded, idx>>

\* Unload.run iterating in the order of Load.run (provs.reverse() left out)
Unload_items_not_reversed == provides

\* the list Load.run iterates over: dist['provides'].items()
Load_items == provides

\* the list Unload.run iterates over: provs = items(); provs.reverse()
Unload_items == Reverse(provides)

\* Load.run
Load_run ==
    /\ cmd = "load"
    /\ pc \in {"start", "loop"}
    /\ IF idx <= Len(Load_items)
         THEN \E ans \in Answers :
                LoopStep(Load_items,
                         Load_load_ext(Load_items[idx].name, Load_items[idx].file,
                                       loaded, ans))
         ELSE LoopEnd
    /\ UNCHANGED <<cmd, buildEnv, copied, loadEnv, runNo, prevFiles>>

\* Unload.run
Unload_run ==
    /\ cmd = "unload"
    /\ pc \in {"start", "loop"}
    /\ IF idx <= Len(Unload_items)
         THEN \E ans \in Answers :
                LoopStep(Unload_items,
                         Unload_load_ext(Unload_items[idx].name,
                                         Unload_items[idx].file, loaded, ans))
         ELSE LoopEnd
    /\ UNCHANGED <<cmd, buildEnv, copied, loadEnv, runNo, prevFiles>>

\* SQL files a run has executed with exit code 0
FilesExecuted(t) ==
    { t[i].arg : i \in { j \in 1..Len(t) : t[j].op = "load_sql" /\ t[j].rc = 0 } }

\* a later run whose command object keeps the _loaded of the run before
FreshRun_keeps_loaded ==
    /\ cmd \in {"load", "unload"}
    /\ pc = "done"
    /\ runNo < MaxRuns
    /\ runNo' = runNo + 1
    /\ prevFiles' = FilesExecuted(trace)
    /\ pc' = "start"
    /\ result' = "running"
    /\ trace' = <<>>
    /\ idx' = 1
    /\ UNCHANGED <<cmd, buildEnv, tmpExists, inTempScope, fnExists, copied,
                   loadEnv, loaded>>

\* the command is run again: a new process, a new command object (which has
\* no _loaded attribute), the same distribution and the same server
FreshRun ==
    /\ cmd \in {"load", "unload"}
    /\ pc = "done"
    /\ runNo < MaxRuns
    /\ runNo' = runNo + 1
    /\ prevFiles' = FilesExecuted(trace)
    /\ pc' = "start"
    /\ result' = "running"
    /\ trace' = <<>>
    /\ idx' = 1
    /\ loaded' = <<>>
    /\ UNCHANGED <<cmd, buildEnv, tmpExists, inTempScope, fnExists, copied,
                   loadEnv>>

-----------------------------------------------------------------------------
(* The inputs *)

A == <<"a">>
B == <<"b">>
C == <<"c">>
A_sql == A \o DotSql
Dir_a_sql == <<"s", "/">> \o A_sql
A_so == <<"a", ".", "s", "o">>
B_sql == B \o DotSql

\* entries (name, data.get('file')) a distribution may provide
Entries ==
    { [name |-> A, file |-> NoFile],
      [name |-> A, file |-> A_sql],
      [name |-> B, file |-> NoFile],
      [name |-> B, file |-> A_sql],
      [name |-> B, file |-> B_sql],
      [name |-> A, file |-> A_so],
      [name |-> C, file |-> Dir_a_sql] }

\* items() of a mapping: no name twice
DistinctNames(seq) ==
    \A i, j \in 1..Len(seq) : i # j => seq[i].name # seq[j].name

ProvidesLists ==
    { seq \in UNION { [1..n -> Entries] : n \in 0..MaxProvides } :
        DistinctNames(seq) }

\* files that may exist under sharedir
SharePaths ==
    { Sharedir \o Slash \o rel :
        rel \in { A \o Slash \o A_sql,
                  ContribDir \o Slash \o A_sql,
                  B \o Slash \o B_sql,
                  ContribDir \o Slash \o UninstallPrefix \o A_sql,
                  ExtensionDir \o Slash \o A \o DotControl } }

\* the numbers in the output of SELECT version(): 9.0.4, 9.1, 9.2.0, 10.0,
\* and an output the pattern does not match
VersionOutputs == { <<9, 0, 4>>, <<9, 1>>, <<9, 2, 0>>, <<10, 0>>, <<>> }

Commands == {"download"} \cup BuildCommands \cup {"load", "unload"}

Init ==
    /\ cmd \in Commands
    /\ pc = "start"
    /\ result = "running"
    /\ trace = <<>>
    /\ tmpExists = FALSE
    /\ inTempScope = FALSE
    /\ fnExists = FALSE
    /\ idx = 1
    /\ loaded = <<>>
    /\ runNo = 1
    /\ prevFiles = {}
    \* download takes a remote spec only (WithSpec); the others WithSpecLocal
    /\ specKind \in IF cmd = "download" THEN {"remote"}
                    ELSE IF cmd \in BuildCommands THEN {"dir", "file", "remote"}
                    ELSE {"remote"}
    /\ meta \in IF specKind = "remote" /\ cmd \notin {"load", "unload"}
                  THEN Metas ELSE {[version |-> "1.0.0"]}
    /\ content \in IF specKind = "remote" /\ cmd \notin {"load", "unload"}
                     THEN Contents ELSE {<<>>}
    /\ hasConfigure \in IF cmd \in BuildCommands THEN BOOLEAN ELSE {FALSE}
    /\ regression \in IF cmd = "check" THEN SUBSET {"out", "diffs"} ELSE {{}}
    \* a directory spec may name the current directory; an unpacked archive
    \* lies in the temporary directory
    /\ pdirIsCwd \in IF cmd = "check" /\ specKind = "dir" THEN BOOLEAN ELSE {FALSE}
    /\ copied = IF pdirIsCwd THEN regression ELSE {}
    /\ provides \in IF cmd \in {"load", "unload"} THEN ProvidesLists ELSE {<<>>}
    /\ sharefiles \in IF cmd \in {"load", "unload"} THEN SUBSET SharePaths ELSE {{}}
    /\ versionData \in IF cmd \in {"load", "unload"} THEN VersionOutputs ELSE {<<>>}

LoadNext ==
    \/ Load_run
    \/ Unload_run
    \/ FreshRun

Next == BuildNext \/ LoadNext

Spec == Init /\ [][Next]_vars

-----------------------------------------------------------------------------
(* Properties *)

IsPrefix(s, t) == Len(s) <= Len(t) /\ SubSeq(t, 1, Len(s)) = s

MakeOps == {"make_all", "make_install", "make_uninstall", "make_installcheck"}
BuildOps == {"unpack", "configure"} \cup MakeOps

\* every operation of the trace but the last exited with 0
EarlierStepsSucceeded == \A i \in 1..(Len(trace) - 1) : trace[i].rc = 0

\* the operations that supply the source directory, by kind of spec
AcquireOps ==
    IF specKind = "dir" THEN <<>>
    ELSE IF specKind = "file" THEN <<"unpack">>
    ELSE <<"download", "verify", "unpack">>

\* C1: verify_checksum succeeds exactly when the SHA-1 of the file's content
\* equals the expected digest, and then leaves the file in place (the
\* download command returns it, the build commands go on to unpack it); when
\* the digests differ the run fails with BadChecksum and the file is gone.
C1_VerifyChecksum ==
    HasOp(trace, "verify") =>
        IF Sha1Hex(content) = meta.sha1
          THEN /\ trace[IndexOf(trace, "verify")].rc = 0
               /\ result # "BadChecksum"
               /\ (cmd = "download" => pc = "done" /\ result = "ok" /\ fnExists)
               /\ (pc = "unpack" => fnExists)
          ELSE /\ trace[IndexOf(trace, "verify")].rc = 1
               /\ pc = "done"
               /\ result = "BadChecksum"
               /\ ~fnExists

\* C1 witness: a download whose content does not hash to the expected digest
C1_Witness ==
    /\ cmd = "download"
    /\ HasOp(trace, "verify")
    /\ Sha1Hex(content) # meta.sha1
    /\ result = "BadChecksum"
    /\ ~fnExists

\* C2: when the metadata of a remote spec has no sha1, nothing is downloaded,
\* unpacked, configured or built, and once Download.run has run the command
\* has failed for the missing checksum.
C2_NoDigestNoDownload ==
    (cmd \in {"download"} \cup BuildCommands /\ specKind = "remote"
        /\ "sha1" \notin DOMAIN meta) =>
        /\ trace = <<>>
        /\ ~fnExists
        /\ pc \in {"start", "acquire", "download", "done"}
        /\ (pc = "done" => result = "MissingChecksum")

\* C2 witness: an install of a remote spec without sha1 has failed
C2_Witness ==
    /\ cmd = "install"
    /\ specKind = "remote"
    /\ "sha1" \notin DOMAIN meta
    /\ pc = "done"
    /\ result = "MissingChecksum"

\* C3: for a remote spec the unpacker runs only after a successful checksum
\* verification, and after a failed verification neither unpack nor
\* configure nor any make target has run.
C3_UnpackAfterVerify ==
    (cmd \in BuildCommands /\ specKind = "remote") =>
        /\ \A i \in 1..Len(trace) :
             trace[i].op = "unpack" =>
                \E j \in 1..(i - 1) : trace[j].op = "verify" /\ trace[j].rc = 0
        /\ (\E j \in 1..Len(trace) : trace[j].op = "verify" /\ trace[j].rc # 0)
              => \A i \in 1..Len(trace) : trace[i].op \notin BuildOps

\* C3 witness: a remote spec was verified and unpacked
C3_Witness ==
    /\ cmd \in BuildCommands
    /\ specKind = "remote"
    /\ HasOp(trace, "verify")
    /\ HasOp(trace, "unpack")

\* C4: install performs its steps in the order acquire, configure (only if a
\* configure script exists), make all, make install; a step starts only
\* when every earlier step exited with 0, and the command succeeds only
\* when all of them ran.
C4_InstallOrder ==
    cmd = "install" =>
        LET expected == AcquireOps
                          \o (IF hasConfigure THEN <<"configure">> ELSE <<>>)
                          \o <<"make_all", "make_install">>
        IN  /\ IsPrefix(Ops(trace), expected)
            /\ EarlierStepsSucceeded
            /\ (result = "ok" =>
                    /\ Ops(trace) = expected
                    /\ \A i \in 1..Len(trace) : trace[i].rc = 0)

\* C4 witness: make all failed after configure, and install was not run
C4_Witness ==
    /\ cmd = "install"
    /\ hasConfigure
    /\ pc = "done"
    /\ HasOp(trace, "configure")
    /\ trace[Len(trace)] = Ev("make_all", 1)

\* C5 as claimed: in uninstall, make all has run before make uninstall runs.
C5_AllBeforeUninstall ==
    cmd = "uninstall" =>
        \A i \in 1..Len(trace) :
            trace[i].op = "make_uninstall" =>
                \E j \in 1..(i - 1) : trace[j].op = "make_all"

\* C5 amended: uninstall performs acquire, configure (only if a configure
\* script exists) and make uninstall, in this order and each only when every
\* earlier step exited with 0; it never runs make all.
C5_UninstallOrder ==
    cmd = "uninstall" =>
        LET expected == AcquireOps
                          \o (IF hasConfigure THEN <<"configure">> ELSE <<>>)
                          \o <<"make_uninstall">>
        IN  /\ IsPrefix(Ops(trace), expected)
            /\ EarlierStepsSucceeded
            /\ ~HasOp(trace, "make_all")
            /\ (result = "ok" =>
                    /\ Ops(trace) = expected
                    /\ \A i \in 1..Len(trace) : trace[i].rc = 0)

\* C5 witness: uninstall ran configure and then make uninstall
C5_Witness ==
    /\ cmd = "uninstall"
    /\ hasConfigure
    /\ HasOp(trace, "configure")
    /\ HasOp(trace, "make_uninstall")
    /\ result = "ok"

\* errors raised while the source directory is being supplied
AcquireErrors == {"MissingChecksum", "NetworkError", "BadChecksum", "UnpackFailed"}

\* C6: without a configure script the configure step is skipped without
\* error and the make targets still run (install: make all, and make install
\* once make all exited with 0); with a script that exits non-zero the
\* command fails with ConfigureFailed and no make target is run.
C6_ConfigureConditional ==
    cmd \in BuildCommands =>
        /\ ~hasConfigure =>
              /\ ~HasOp(trace, "configure")
              /\ result # "ConfigureFailed"
              /\ (pc = "done" /\ result \notin AcquireErrors) =>
                     \E i \in 1..Len(trace) : trace[i].op \in MakeOps
              /\ (cmd = "install" /\ pc = "done" /\ result \notin AcquireErrors) =>
                     /\ HasOp(trace, "make_all")
                     /\ (trace[IndexOf(trace, "make_all")].rc = 0
                            => HasOp(trace, "make_install"))
        /\ (\E i \in 1..Len(trace) : trace[i].op = "configure" /\ trace[i].rc # 0) =>
              /\ hasConfigure
              /\ pc = "done"
              /\ result = "ConfigureFailed"
              /\ \A i \in 1..Len(trace) : trace[i].op \notin MakeOps

\* C6 witness: a configure script exited non-zero
C6_Witness ==
    /\ cmd = "install"
    /\ hasConfigure
    /\ trace # <<>>
    /\ trace[Len(trace)] = Ev("configure", 1)
    /\ result = "ConfigureFailed"

\* C7: the temporary directory of install, uninstall and check exists while
\* the pipeline runs and no longer exists once the command has returned or
\* failed, whatever the kind of spec and whatever the step that failed.
C7_TempDirRemoved ==
    cmd \in BuildCommands =>
        /\ (pc \notin {"start", "done"} => tmpExists)
        /\ (pc = "done" => ~tmpExists)

\* C7 witness: check on a downloaded distribution failed in its test step
C7_Witness ==
    /\ cmd = "check"
    /\ specKind = "remote"
    /\ pc = "done"
    /\ result = "MakeFailed"
    /\ ~tmpExists

IsLoadExt(e) == e.op = "load_ext"

\* the names load_ext has been called with in this run, in order
Processed ==
    LET calls == SelectSeq(trace, IsLoadExt)
    IN  [i \in 1..Len(calls) |-> calls[i].arg]

\* C8: Load.run calls load_ext on the entries of provides in their order O,
\* Unload.run in the order reverse(O); one entry per turn of the loop, no
\* entry twice, and a run that returns has processed every entry.
C8_ProcessingOrder ==
    cmd \in {"load", "unload"} =>
        /\ Len(Processed) <= Len(provides)
        /\ Len(Processed) = idx - 1
        /\ \A i \in 1..Len(Processed) :
             Processed[i] = IF cmd = "load"
                              THEN provides[i].name
                              ELSE provides[Len(provides) + 1 - i].name
        /\ \A i, j \in 1..Len(Processed) : i # j => Processed[i] # Processed[j]
        /\ (pc = "done" /\ result = "ok") => Len(Processed) = Len(provides)

\* C8 witness: an unload of two or more objects has completed
C8_Witness ==
    /\ cmd = "unload"
    /\ Len(provides) >= 2
    /\ pc = "done"
    /\ result = "ok"
    /\ Len(Processed) = Len(provides)

\* C9: within one run of load a SQL file is executed at most once, and an
\* activation is skipped as already loaded only when the same path was
\* executed with success earlier in this very run: a fresh run starts with
\* nothing loaded and executes the file again.
C9_LoadOncePerRun ==
    cmd = "load" =>
        \A i \in 1..Len(trace) :
            /\ trace[i].op = "already_loaded" =>
                  \E j \in 1..(i - 1) :
                      /\ trace[j].op = "load_sql"
                      /\ trace[j].arg = trace[i].arg
                      /\ trace[j].rc = 0
            /\ trace[i].op = "load_sql" =>
                  \A j \in 1..(i - 1) :
                      ~(trace[j].op = "load_sql" /\ trace[j].arg = trace[i].arg)

\* C9 witness: the second run executed a file the first run had executed,
\* and skipped the second activation that resolved to it
C9_Witness ==
    /\ cmd = "load"
    /\ runNo = 2
    /\ \E i, j \in 1..Len(trace) :
         /\ i < j
         /\ trace[i].op = "load_sql"
         /\ trace[i].rc = 0
         /\ trace[i].arg \in prevFiles
         /\ trace[j].op = "already_loaded"
         /\ trace[j].arg = trace[i].arg

\* the events at positions i < j belong to the same call of load_ext
SameCall(i, j) ==
    /\ i < j
    /\ \A k \in (i + 1)..j : trace[k].op # "load_ext"

NativeOps == {"create_extension", "drop_extension"}
FileOps == {"find_sql_file", "load_sql", "already_loaded"}
ConfirmOps == {"confirm_loose", "confirm_guess", "confirm_unload"}

\* the server answers SELECT version() with a version >= 9.1.0
ServerAtLeast91 ==
    /\ Len(versionData) >= 2
    /\ \/ versionData[1] > 9
       \/ versionData[1] = 9 /\ versionData[2] >= 1

\* the server answers SELECT version() with a version < 9.1.0
ServerBelow91 ==
    /\ Len(versionData) >= 2
    /\ \/ versionData[1] < 9
       \/ versionData[1] = 9 /\ versionData[2] < 1

HasControlFile(name) ==
    (Sharedir \o Slash \o ExtensionDir \o Slash \o name \o DotControl) \in sharefiles

\* the call of load_ext that starts at position i of the trace ran CREATE /
\* DROP EXTENSION, and neither looked for nor ran a SQL file, nor asked
NativeOnly(i) ==
    /\ \E j \in 1..Len(trace) : SameCall(i, j) /\ trace[j].op \in NativeOps
    /\ \A j \in 1..Len(trace) :
         SameCall(i, j) => trace[j].op \notin FileOps \cup ConfirmOps

\* the version query of the call of load_ext that starts at position i was
\* made and psql exited non-zero
VersionQueryFailed(i) ==
    /\ i < Len(trace)
    /\ trace[i + 1].op = "psql_version"
    /\ trace[i + 1].rc # 0

\* C10 as claimed: below 9.1.0 CREATE / DROP EXTENSION is never executed;
\* at 9.1.0 or above, every object that has a control file gets the native
\* command and no file lookup, file execution or confirmation (runs in which
\* the database client itself failed on the version query are left aside).
C10_VersionGating ==
    cmd \in {"load", "unload"} =>
        /\ ServerBelow91 => \A i \in 1..Len(trace) : trace[i].op \notin NativeOps
        /\ ServerAtLeast91 =>
              \A i \in 1..Len(trace) :
                  (/\ trace[i].op = "load_ext"
                   /\ HasControlFile(trace[i].arg)
                   /\ ~VersionQueryFailed(i))
                      => NativeOnly(i)

\* the call of load_ext that starts at position i got past the test of the
\* file hint and received the answer of the version query
ReachedGate(i) ==
    /\ i < Len(trace)
    /\ trace[i + 1].op = "psql_version"
    /\ trace[i + 1].rc = 0

\* C10 amended: below 9.1.0 CREATE / DROP EXTENSION is never executed; at
\* 9.1.0 or above, every object that has a control file, is not skipped for
\* a file hint that is not SQL, and for which the version query succeeded,
\* gets the native command and no file lookup, file execution or
\* confirmation; an object skipped for its hint gets none of these either.
C10_VersionGatingReached ==
    cmd \in {"load", "unload"} =>
        /\ ServerBelow91 => \A i \in 1..Len(trace) : trace[i].op \notin NativeOps
        /\ ServerAtLeast91 =>
              \A i \in 1..Len(trace) :
                  (trace[i].op = "load_ext" /\ HasControlFile(trace[i].arg)) =>
                      /\ ReachedGate(i) => NativeOnly(i)
                      /\ \A j \in 1..Len(trace) :
                            SameCall(i, j) => trace[j].op \notin FileOps \cup ConfirmOps

\* C10 witness: on a server >= 9.1.0 an object with a control file was
\* activated by CREATE EXTENSION alone
C10_Witness ==
    /\ cmd = "load"
    /\ ServerAtLeast91
    /\ \E i \in 1..Len(trace) :
         /\ trace[i].op = "load_ext"
         /\ HasControlFile(trace[i].arg)
         /\ ReachedGate(i)
         /\ NativeOnly(i)

\* the position of the load_ext event of the call the event at j belongs to
CallStart(j) ==
    CHOOSE i \in 1..Len(trace) : trace[i].op = "load_ext" /\ SameCall(i, j)

Exists(rel) == (Sharedir \o Slash \o rel) \in sharefiles

\* the path the claim expects find_sql_file(name, file) to return, <<>> when
\* no candidate exists; file is taken without its directory part, as the
\* Makefile flattens it, and the stem is file up to its last dot
ExpectedSqlFile(name, file) ==
    LET f == Basename(file)
        stem == RSplitDot(f)
    IN  IF Exists(name \o Slash \o f) THEN Sharedir \o Slash \o name \o Slash \o f
        ELSE IF Exists(stem \o Slash \o f) THEN Sharedir \o Slash \o stem \o Slash \o f
        ELSE IF Exists(ContribDir \o Slash \o f)
               THEN Sharedir \o Slash \o ContribDir \o Slash \o f
               ELSE <<>>

\* C11: find_sql_file(name, file) returns the first existing one of
\* <name>/<file>, <file without extension>/<file>, contrib/<file> under
\* sharedir, also when a later candidate exists (the path is the one the
\* next operation of the call works on); when none exists the run fails
\* with the file-not-found error and the call executes no SQL.
C11_FindSqlFileOrder ==
    cmd \in {"load", "unload"} =>
        \A j \in 1..Len(trace) :
            trace[j].op = "find_sql_file" =>
                LET want == ExpectedSqlFile(trace[CallStart(j)].arg, trace[j].arg)
                IN  IF want = <<>>
                      THEN /\ trace[j].rc = 1
                           /\ j = Len(trace)
                           /\ pc = "done"
                           /\ result = "SqlFileNotFound"
                      ELSE /\ trace[j].rc = 0
                           /\ j < Len(trace)
                           /\ trace[j + 1].op \in
                                {"confirm_guess", "confirm_unload", "load_sql",
                                 "already_loaded"}
                           /\ trace[j + 1].arg = want

\* C11 witness: the first candidate and contrib/<file> both exist and the
\* file under <name>/ was executed
C11_Witness ==
    /\ cmd = "load"
    /\ Exists(A \o Slash \o A_sql)
    /\ Exists(ContribDir \o Slash \o A_sql)
    /\ \E j \in 1..Len(trace) :
         /\ trace[j].op = "load_sql"
         /\ trace[j].arg = Sharedir \o Slash \o A \o Slash \o A_sql
         /\ trace[CallStart(j)].arg = A

\* the operations of the call of load_ext that starts at position i
CallOps(i) ==
    LET last == CHOOSE j \in i..Len(trace) :
                    /\ (j = i \/ SameCall(i, j))
                    /\ (j = Len(trace) \/ trace[j + 1].op = "load_ext")
    IN  [k \in 1..(last - i + 1) |-> trace[i + k - 1].op]

\* Scenario C: load of provides = {foo: {}, bar: {file: bar.sql}} (here a and
\* b) on a 9.2.0 server where neither has a control file
ScenarioC ==
    /\ cmd = "load"
    /\ provides = << [name |-> A, file |-> NoFile], [name |-> B, file |-> B_sql] >>
    /\ versionData = <<9, 2, 0>>
    /\ ~HasControlFile(A)
    /\ ~HasControlFile(B)

\* what the activation of foo does when nothing fails and nothing is refused
FooOps == << "load_ext", "psql_version", "confirm_loose", "find_sql_file",
             "confirm_guess", "load_sql" >>

\* C12 as claimed: in scenario C foo is asked the loose-objects confirmation
\* and then the confirmation of the guessed file before foo.sql is executed,
\* and bar's file is executed with no confirmation at all.
C12_ScenarioC ==
    ScenarioC =>
        \A i \in 1..Len(trace) :
            /\ (trace[i].op = "load_ext" /\ trace[i].arg = A)
                  => IsPrefix(CallOps(i), FooOps)
            /\ (trace[i].op = "load_ext" /\ trace[i].arg = B)
                  => IsPrefix(CallOps(i),
                        << "load_ext", "psql_version", "find_sql_file", "load_sql" >>)

\* C12 amended: in scenario C foo is asked the loose-objects confirmation
\* and then the confirmation of the guessed file before foo.sql is executed;
\* bar, which has no control file either, is asked the loose-objects
\* confirmation too, and then bar.sql is executed with no confirmation of
\* the file name; a run that returns has done all of this, in this order.
C12_ScenarioCLooseConfirm ==
    ScenarioC =>
        /\ \A i \in 1..Len(trace) :
            /\ (trace[i].op = "load_ext" /\ trace[i].arg = A)
                  => IsPrefix(CallOps(i), FooOps)
            /\ (trace[i].op = "load_ext" /\ trace[i].arg = B)
                  => IsPrefix(CallOps(i),
                        << "load_ext", "psql_version", "confirm_loose",
                           "find_sql_file", "load_sql" >>)
        /\ (pc = "done" /\ result = "ok") =>
              /\ Ops(trace) = FooOps \o << "load_ext", "psql_version",
                                          "confirm_loose", "find_sql_file",
                                          "load_sql" >>
              /\ Basename(trace[6].arg) = A_sql
              /\ Basename(trace[11].arg) = B_sql

\* C12 witness: scenario C has run to its end
C12_Witness ==
    /\ ScenarioC
    /\ pc = "done"
    /\ result = "ok"
    /\ Len(trace) = 11

\* the prompt recorded at position j of the trace was refused
Refused(j) == trace[j].op \in ConfirmOps /\ trace[j].rc # 0

\* C13 as claimed: a refused prompt aborts only the activation of its
\* object: that call executes no SQL, and the run goes on to process the
\* remaining entries of provides.
C13_RefusalSkipsObject ==
    cmd \in {"load", "unload"} =>
        \A j \in 1..Len(trace) :
            Refused(j) =>
                /\ \A k \in 1..Len(trace) :
                      SameCall(j, k) => trace[k].op \notin NativeOps \cup {"load_sql"}
                /\ pc = "done" => Len(Processed) = Len(provides)

\* C13 amended: a refused prompt aborts the activation of its object, which
\* executes no SQL after it, and ends the run with the user's cancellation:
\* nothing follows the prompt and the entries after the object are never
\* processed.
C13_RefusalEndsRun ==
    cmd \in {"load", "unload"} =>
        \A j \in 1..Len(trace) :
            Refused(j) =>
                /\ j = Len(trace)
                /\ pc = "done"
                /\ result = "UserAbort"
                /\ idx = Len(Processed) + 1

\* C13 witness: the prompt of the first of two objects was refused
C13_Witness ==
    /\ cmd = "load"
    /\ Len(provides) = 2
    /\ Len(Processed) = 1
    /\ trace # <<>>
    /\ Refused(Len(trace))
    /\ pc = "done"

\* make installcheck has run and exited non-zero
InstallcheckFailed ==
    \E i \in 1..Len(trace) : trace[i].op = "make_installcheck" /\ trace[i].rc # 0

\* C14: when installcheck fails, every regression.out / regression.diffs of
\* the source directory has been copied to the current directory by the time
\* the failure has left the pipeline and the temporary directory is gone,
\* and the command fails with the failure of make; in every other case
\* nothing is copied (the current directory holds what it held at the start).
C14_RegressionCopied ==
    cmd = "check" =>
        IF InstallcheckFailed
          THEN /\ copied = regression
               /\ pc = "done"
               /\ result = "MakeFailed"
               /\ ~tmpExists
          ELSE copied = IF pdirIsCwd THEN regression ELSE {}

\* C15: in unload a SQL file is executed only right after the prompt about
\* this file was accepted, and every accepted prompt is followed by the
\* execution of the file, whether or not the run has executed it before;
\* unload neither consults nor changes the list of loaded files.
C15_UnloadAlwaysAsks ==
    cmd = "unload" =>
        /\ loaded = <<>>
        /\ \A j \in 1..Len(trace) :
             /\ trace[j].op # "already_loaded"
             /\ trace[j].op = "load_sql" =>
                   /\ j > 1
                   /\ trace[j - 1] = EvA("confirm_unload", trace[j].arg, 0)
             /\ trace[j].op = "confirm_unload" =>
                   IF trace[j].rc = 0
                     THEN /\ j < Len(trace)
                          /\ trace[j + 1].op = "load_sql"
                          /\ trace[j + 1].arg = trace[j].arg
                     ELSE j = Len(trace)

\* C15 witness: one run of unload executed the same uninstall script twice
C15_Witness ==
    /\ cmd = "unload"
    /\ \E i, j \in 1..Len(trace) :
         /\ i < j
         /\ trace[i].op = "load_sql"
         /\ trace[j].op = "load_sql"
         /\ trace[i].arg = trace[j].arg
         /\ trace[i].rc = 0

\* data.get('file') of the entry of provides called name
HintOf(name) ==
    provides[CHOOSE k \in 1..Len(provides) : provides[k].name = name].file

\* the hint is present and its last four characters are not ".sql"
HintNotSql(file) ==
    /\ file # <<>>
    /\ ~(/\ Len(file) >= 4
         /\ file[Len(file) - 3] = "."
         /\ file[Len(file) - 2] = "s"
         /\ file[Len(file) - 1] = "q"
         /\ file[Len(file)] = "l")

IsSqlRun(e) == e.op = "load_sql" /\ e.rc = 0

\* the files executed with exit code 0 in this run, in order
ExecutedFiles ==
    LET runs == SelectSeq(trace, IsSqlRun)
    IN  [k \in 1..Len(runs) |-> runs[k].arg]

\* C16: an object whose file hint is present and does not end in ".sql" is
\* skipped with success: its call of load_ext queries no version, asks
\* nothing, executes nothing, leaves the list of loaded files as the
\* executions of the other objects made it, and the run goes on; no other
\* object is skipped this way.
C16_NonSqlSkipped ==
    cmd \in {"load", "unload"} =>
        /\ \A i \in 1..Len(trace) :
             trace[i].op = "load_ext" =>
                IF HintNotSql(HintOf(trace[i].arg))
                  THEN /\ CallOps(i) = << "load_ext", "not_sql" >>
                       /\ (i + 1 = Len(trace)) =>
                             \/ pc = "loop" /\ result = "running"
                             \/ pc = "done" /\ result = "ok"
                                    /\ Len(Processed) = Len(provides)
                  ELSE \A j \in 1..Len(trace) :
                          SameCall(i, j) => trace[j].op # "not_sql"
        /\ loaded = IF cmd = "load" THEN ExecutedFiles ELSE <<>>

\* C16 witness: a load skipped an object with hint a.so after it had loaded
\* a file for another object
C16_Witness ==
    /\ cmd = "load"
    /\ Len(trace) >= 2
    /\ trace[Len(trace)].op = "not_sql"
    /\ trace[Len(trace) - 1].arg = A
    /\ HintOf(A) = A_so
    /\ loaded # <<>>
    /\ pc = "done"
    /\ result = "ok"

\* C17: the list of loaded files is empty when a run starts, and within a
\* run every step leaves it as it is or appends to it: no path is removed.
C17_LoadedOnlyGrows ==
    /\ loaded = <<>>
    /\ [][IF runNo' = runNo
            THEN IsPrefix(loaded, loaded')
            ELSE loaded' = <<>> /\ pc' = "start"]_vars

\* C17 witness: the second run has loaded two files
C17_Witness ==
    /\ cmd = "load"
    /\ runNo = 2
    /\ Len(loaded) = 2
    /\ loaded[1] # loaded[2]

PsqlOps == {"psql_version", "load_sql"} \cup NativeOps

\* C18: when psql exits non-zero, on the version query, on CREATE / DROP
\* EXTENSION or on a SQL file, nothing follows in the run: it has failed
\* with the failure of psql and the entries after the object are never
\* processed.
C18_PsqlFailureFatal ==
    cmd \in {"load", "unload"} =>
        \A j \in 1..Len(trace) :
            (trace[j].op \in PsqlOps /\ trace[j].rc # 0) =>
                /\ j = Len(trace)
                /\ pc = "done"
                /\ result = "PsqlFailed"
                /\ idx = Len(Processed) + 1

\* C18 witness: DROP EXTENSION failed on the first of two objects
C18_Witness ==
    /\ cmd = "unload"
    /\ Len(provides) = 2
    /\ Len(Processed) = 1
    /\ trace # <<>>
    /\ trace[Len(trace)].op = "drop_extension"
    /\ trace[Len(trace)].rc # 0
    /\ result = "PsqlFailed"

StartsWith(s, prefix) ==
    /\ Len(s) >= Len(prefix)
    /\ SubSeq(s, 1, Len(prefix)) = prefix

\* the path file-based load executes for (name, hint), <<>> if it finds none
LoadPath(name, hint) ==
    find_sql_file(name, IF hint = NoFile THEN name \o DotSql ELSE hint)

\* C19: every file that file-based unload executes has a basename that
\* starts with "uninstall_" and is not the path file-based load executes
\* for the same name and file hint, also for hints with a directory part.
C19_UnloadRunsUninstallScript ==
    cmd = "unload" =>
        \A j \in 1..Len(trace) :
            trace[j].op = "load_sql" =>
                LET name == trace[CallStart(j)].arg
                IN  /\ StartsWith(Basename(trace[j].arg), UninstallPrefix)
                    /\ trace[j].arg # LoadPath(name, HintOf(name))

\* C20: in a load run every path recorded as loaded is a file whose SQL
\* execution finished with exit code zero in this run; a file whose
\* execution failed, that was declined at a prompt, or that CREATE EXTENSION
\* replaced is never recorded.
C20_LoadedWereExecuted ==
    cmd = "load" =>
        \A k \in 1..Len(loaded) :
            \E j \in 1..Len(trace) :
                /\ trace[j].op = "load_sql"
                /\ trace[j].arg = loaded[k]
                /\ trace[j].rc = 0

\* one file is recorded, and the run then ends on a file whose execution
\* failed and which is not recorded
C20_Witness ==
    /\ cmd = "load"
    /\ loaded # <<>>
    /\ result = "PsqlFailed"
    /\ trace[Len(trace)].op = "load_sql"
    /\ trace[Len(trace)].rc # 0
    /\ ~is_loaded(loaded, trace[Len(trace)].arg)

====
